---------------------------- MODULE Spec2Model ----------------------------
(* A model of telebot's types.go: the Recipient capability of User and    *)
(* Chat (Destination, IsGroupChat), the Update envelope and the callback  *)
(* acknowledgement, and the JSON wire form that the struct tags of the    *)
(* entities select under encoding/json.                                   *)
(*                                                                        *)
(* A Go string is a sequence of one-character strings, so that prefixes   *)
(* and digits of a destination token can be inspected.                    *)
EXTENDS Integers, Sequences, FiniteSets, TLC

VARIABLES recv, call, ret, wire

vars == <<recv, call, ret, wire>>

-----------------------------------------------------------------------------
(* Bounds of the model.                                                   *)

MaxID == 12

MaxLen == 2

MaxDim == 1

MaxUpdateID == 1

-----------------------------------------------------------------------------
(* Go values.                                                             *)

\* The nil pointer.
Nil == [nil |-> TRUE]

\* The string literals types.go compares a chat's Type with.
channel == <<"c", "h", "a", "n", "n", "e", "l">>

private == <<"p", "r", "i", "v", "a", "t", "e">>

\* The remaining chat kinds named by the comment on Chat, and two values
\* of the open string type ChatType that are none of the four.
group == <<"g", "r", "o", "u", "p">>

supergroup == <<"s", "u", "p", "e", "r">> \o group

Channel == <<"C">> \o Tail(channel)

ChatType == {private, group, supergroup, channel, Channel, <<>>}

DefinedKinds == {private, group, supergroup, channel}

\* Identifiers: a run around zero (one and two digits, both signs) and
\* two longer ones.
IDs == (-MaxID .. MaxID) \cup {555, -1000}

Alphabet == {"n", "1"}

RECURSIVE StringsUpTo(_)
StringsUpTo(n) ==
    IF n = 0 THEN {<<>>}
    ELSE LET shorter == StringsUpTo(n - 1)
         IN  shorter \cup {Append(s, ch) : s \in shorter, ch \in Alphabet}

Usernames == StringsUpTo(MaxLen)

Text(ch) == {<<>>, <<ch>>}

-----------------------------------------------------------------------------
(* strconv.                                                               *)

DigitChar == <<"0", "1", "2", "3", "4", "5", "6", "7", "8", "9">>

\* The digits of an unsigned value, most significant first (formatBits).
RECURSIVE FormatBits(_)
FormatBits(u) ==
    IF u < 10 THEN <<DigitChar[u + 1]>>
    ELSE Append(FormatBits(u \div 10), DigitChar[(u % 10) + 1])

FormatIntNoSign(i) == FormatBits(IF i < 0 THEN -i ELSE i)

\* strconv.FormatInt(i, 10)
FormatInt(i) == IF i < 0 THEN <<"-">> \o FormatBits(-i) ELSE FormatBits(i)

\* strconv.Itoa(i) is FormatInt(int64(i), 10)
Itoa(i) == FormatInt(i)

-----------------------------------------------------------------------------
(* The entities.                                                          *)

User == [ID : IDs, FirstName : Text("f"), LastName : Text("l"),
         Username : Usernames]

Chat == [ID : IDs, Type : ChatType, Title : Text("t"),
         FirstName : Text("f"), LastName : Text("l"), Username : Usernames]

UserDestinationUnsigned(u) == FormatIntNoSign(u.ID)

\* func (u *User) Destination() string
UserDestination(u) == Itoa(u.ID)

ToLower(s) == [i \in DOMAIN s |-> IF s[i] = "C" THEN "c" ELSE s[i]]

ChatDestinationBare(c) ==
    IF c.Type # channel THEN FormatInt(c.ID) ELSE c.Username

ChatDestinationNegated(c) ==
    IF c.Type = channel THEN FormatInt(c.ID) ELSE <<"@">> \o c.Username

ChatDestinationFallback(c) ==
    IF c.Type # channel \/ c.Username = <<>> THEN FormatInt(c.ID)
    ELSE <<"@">> \o c.Username

ChatDestinationFolded(c) ==
    IF ToLower(c.Type) # channel THEN FormatInt(c.ID)
    ELSE <<"@">> \o c.Username

\* func (c *Chat) Destination() string
ChatDestination(c) ==
    LET ret0 == <<"@">> \o c.Username
    IN  IF c.Type # channel THEN FormatInt(c.ID) ELSE ret0

IsGroupChatOnlyGroups(c) == c.Type \in {group, supergroup}

\* func (c *Chat) IsGroupChat() bool
IsGroupChat(c) == c.Type # private


-----------------------------------------------------------------------------
(* Entities of the wire model.  Message, Query and File are declared in   *)
(* other files of the package; each is kept to the fields the             *)
(* specification names for it.                                            *)

Message == [ID : 1 .. MaxUpdateID + 1]

Query == [ID : {<<"q">>}]

File == [FileID : Text("i"), FileSize : 0 .. MaxDim]

Photo == [File : File, Width : 0 .. MaxDim, Height : 0 .. MaxDim,
          Caption : Text("c")]

Audio == [File : File, Duration : 0 .. MaxDim, Title : Text("t"),
          Performer : Text("p"), Mime : Text("m"), Caption : Text("c")]

\* The thumbnails attached to the videos of the model.
Thumbnails ==
    {p \in Photo : p.Width = 0 /\ p.Height = 0 /\ p.File.FileSize = 0}

Video == [Audio : Audio, Width : 0 .. MaxDim, Height : 0 .. MaxDim,
          Caption : Text("c"), Thumbnail : Thumbnails]

CallbackIDs == {<<>>, <<"a">>, <<"b">>}

\* The senders attached to the callbacks of the model.
Senders == {u \in User : u.ID = 1 /\ u.FirstName = <<>> /\ u.LastName = <<>>
                         /\ u.Username = <<"n">>}

Callback == [ID : CallbackIDs, Sender : {Nil} \cup Senders,
             Message : {Nil} \cup {m \in Message : m.ID = 1},
             MessageID : Text("i"), Data : Text("d")]

CallbackResponse == [CallbackID : CallbackIDs, Text : Text("x"),
                     ShowAlert : BOOLEAN, URL : Text("u")]

\* The callbacks carried by the updates of the model.
UpdateCallbacks ==
    {c \in Callback : c.Message = Nil /\ c.MessageID = <<>> /\ c.ID # <<>>}

Update == [ID : 0 .. MaxUpdateID, Payload : {Nil} \cup Message,
           Callback : {Nil} \cup UpdateCallbacks, Query : {Nil} \cup Query]

\* The zero value of each struct type.
ZeroFile == [FileID |-> <<>>, FileSize |-> 0]

ZeroPhoto == [File |-> ZeroFile, Width |-> 0, Height |-> 0, Caption |-> <<>>]

ZeroAudio == [File |-> ZeroFile, Duration |-> 0, Title |-> <<>>,
              Performer |-> <<>>, Mime |-> <<>>, Caption |-> <<>>]

Zero(T) ==
    CASE T = "User" -> [ID |-> 0, FirstName |-> <<>>, LastName |-> <<>>,
                        Username |-> <<>>]
      [] T = "Chat" -> [ID |-> 0, Type |-> <<>>, Title |-> <<>>,
                        FirstName |-> <<>>, LastName |-> <<>>,
                        Username |-> <<>>]
      [] T = "Update" -> [ID |-> 0, Payload |-> Nil, Callback |-> Nil,
                          Query |-> Nil]
      [] T = "Message" -> [ID |-> 0]
      [] T = "Query" -> [ID |-> <<>>]
      [] T = "File" -> ZeroFile
      [] T = "Photo" -> ZeroPhoto
      [] T = "Audio" -> ZeroAudio
      [] T = "Video" -> [Audio |-> ZeroAudio, Width |-> 0, Height |-> 0,
                         Caption |-> <<>>, Thumbnail |-> ZeroPhoto]
      [] T = "Callback" -> [ID |-> <<>>, Sender |-> Nil, Message |-> Nil,
                            MessageID |-> <<>>, Data |-> <<>>]
      [] T = "CallbackResponse" -> [CallbackID |-> <<>>, Text |-> <<>>,
                                    ShowAlert |-> FALSE, URL |-> <<>>]

-----------------------------------------------------------------------------
(* The struct tags.  A field descriptor gives the Go path of the field    *)
(* from the encoded struct (longer than one name below an embedded        *)
(* struct), its JSON key, whether the tag carries omitempty, and the      *)
(* field's type.                                                          *)

Field(path, key, omitempty, kind, elem) ==
    [path |-> path, key |-> key, omitempty |-> omitempty, kind |-> kind,
     elem |-> elem]

\* The fields a struct gets from embedding the struct type with fields fs.
Embed(name, fs) == [i \in DOMAIN fs |-> [fs[i] EXCEPT !.path = <<name>> \o @]]

FileFields ==
    << Field(<<"FileID">>, "file_id", FALSE, "string", ""),
       Field(<<"FileSize">>, "file_size", FALSE, "int", "") >>

PhotoFields ==
    Embed("File", FileFields) \o
    << Field(<<"Width">>, "width", FALSE, "int", ""),
       Field(<<"Height">>, "height", FALSE, "int", ""),
       Field(<<"Caption">>, "caption", TRUE, "string", "") >>

AudioFields ==
    Embed("File", FileFields) \o
    << Field(<<"Duration">>, "duration", FALSE, "int", ""),
       Field(<<"Title">>, "title", FALSE, "string", ""),
       Field(<<"Performer">>, "performer", FALSE, "string", ""),
       Field(<<"Mime">>, "mime_type", FALSE, "string", ""),
       Field(<<"Caption">>, "caption", TRUE, "string", "") >>

VideoFields ==
    Embed("Audio", AudioFields) \o
    << Field(<<"Width">>, "width", FALSE, "int", ""),
       Field(<<"Height">>, "height", FALSE, "int", ""),
       Field(<<"Caption">>, "caption", TRUE, "string", ""),
       Field(<<"Thumbnail">>, "thumb", FALSE, "struct", "Photo") >>

UserFields ==
    << Field(<<"ID">>, "id", FALSE, "int", ""),
       Field(<<"FirstName">>, "first_name", FALSE, "string", ""),
       Field(<<"LastName">>, "last_name", FALSE, "string", ""),
       Field(<<"Username">>, "username", FALSE, "string", "") >>

ChatFields ==
    << Field(<<"ID">>, "id", FALSE, "int", ""),
       Field(<<"Type">>, "type", FALSE, "string", ""),
       Field(<<"Title">>, "title", FALSE, "string", ""),
       Field(<<"FirstName">>, "first_name", FALSE, "string", ""),
       Field(<<"LastName">>, "last_name", FALSE, "string", ""),
       Field(<<"Username">>, "username", FALSE, "string", "") >>

UpdateFields ==
    << Field(<<"ID">>, "update_id", FALSE, "int", ""),
       Field(<<"Payload">>, "message", FALSE, "ptr", "Message"),
       Field(<<"Callback">>, "callback_query", FALSE, "ptr", "Callback"),
       Field(<<"Query">>, "inline_query", FALSE, "ptr", "Query") >>

CallbackFields ==
    << Field(<<"ID">>, "id", FALSE, "string", ""),
       Field(<<"Sender">>, "from", FALSE, "ptr", "User"),
       Field(<<"Message">>, "message", FALSE, "ptr", "Message"),
       Field(<<"MessageID">>, "inline_message_id", FALSE, "string", ""),
       Field(<<"Data">>, "data", FALSE, "string", "") >>

CallbackResponseFields ==
    << Field(<<"CallbackID">>, "callback_query_id", FALSE, "string", ""),
       Field(<<"Text">>, "text", TRUE, "string", ""),
       Field(<<"ShowAlert">>, "show_alert", TRUE, "bool", ""),
       Field(<<"URL">>, "url", TRUE, "string", "") >>

MessageFields == << Field(<<"ID">>, "message_id", FALSE, "int", "") >>

QueryFields == << Field(<<"ID">>, "id", FALSE, "string", "") >>

TypeFields(T) ==
    CASE T = "User" -> UserFields
      [] T = "Chat" -> ChatFields
      [] T = "Update" -> UpdateFields
      [] T = "Message" -> MessageFields
      [] T = "Query" -> QueryFields
      [] T = "File" -> FileFields
      [] T = "Photo" -> PhotoFields
      [] T = "Audio" -> AudioFields
      [] T = "Video" -> VideoFields
      [] T = "Callback" -> CallbackFields
      [] T = "CallbackResponse" -> CallbackResponseFields

-----------------------------------------------------------------------------
(* encoding/json, as far as the tags above use it.  A JSON value is null, *)
(* a string, a number, a boolean or an object (a function from its keys). *)

JNull == [json |-> "null"]

JString(s) == [json |-> "string", v |-> s]

JNumber(n) == [json |-> "number", v |-> n]

JBool(b) == [json |-> "bool", v |-> b]

JObject(o) == [json |-> "object", v |-> o]

RECURSIVE Get(_, _)
Get(v, path) ==
    IF Len(path) = 1 THEN v[path[1]] ELSE Get(v[path[1]], Tail(path))

RECURSIVE Set(_, _, _)
Set(v, path, x) ==
    IF Len(path) = 1 THEN [v EXCEPT ![path[1]] = x]
    ELSE [v EXCEPT ![path[1]] = Set(v[path[1]], Tail(path), x)]

\* isEmptyValue: what omitempty counts as empty.
IsEmptyValue(x, kind) ==
    CASE kind = "int" -> x = 0
      [] kind = "string" -> Len(x) = 0
      [] kind = "bool" -> x = FALSE
      [] kind = "ptr" -> x = Nil
      [] kind = "struct" -> FALSE

\* The fields of T that encoding/json encodes and decodes: of the fields
\* sharing a JSON key, the single one at the least embedding depth; a key
\* shared by two tagged fields of the least depth is dropped.
Dominant(fs) ==
    SelectSeq(fs, LAMBDA f :
        \A j \in DOMAIN fs :
            (fs[j].key = f.key /\ fs[j].path # f.path)
                => Len(fs[j].path) > Len(f.path))

WireFields(T) == Dominant(TypeFields(T))

OmitsEveryEmpty(f, x) == IsEmptyValue(x, f.kind)

\* Whether a field of value x is left out of the encoded object.
Omitted(f, x) == f.omitempty /\ IsEmptyValue(x, f.kind)

\* json.Marshal of a value v of struct type T.
RECURSIVE Marshal(_, _)
Marshal(v, T) ==
    LET fs == WireFields(T)
        kept == {i \in DOMAIN fs : ~Omitted(fs[i], Get(v, fs[i].path))}
        keys == {fs[i].key : i \in kept}
        Encode(f, x) ==
            CASE f.kind = "int" -> JNumber(x)
              [] f.kind = "string" -> JString(x)
              [] f.kind = "bool" -> JBool(x)
              [] f.kind = "struct" -> Marshal(x, f.elem)
              [] f.kind = "ptr" ->
                    IF x = Nil THEN JNull ELSE Marshal(x, f.elem)
    IN  JObject([k \in keys |->
            LET i == CHOOSE i \in kept : fs[i].key = k
            IN  Encode(fs[i], Get(v, fs[i].path))])

\* json.Unmarshal of the object w into a zero value of struct type T: a
\* key that is absent leaves its field alone, null clears a pointer and
\* leaves any other field alone.
RECURSIVE Unmarshal(_, _)
RECURSIVE UnmarshalFields(_, _, _, _)
UnmarshalFields(w, fs, n, v) ==
    IF n = 0 THEN v
    ELSE LET f == fs[n]
             prev == UnmarshalFields(w, fs, n - 1, v)
             j == w.v[f.key]
             Decode ==
                 CASE j = JNull ->
                        IF f.kind = "ptr" THEN Nil ELSE Get(prev, f.path)
                   [] j # JNull /\ f.kind \in {"struct", "ptr"} ->
                        Unmarshal(j, f.elem)
                   [] OTHER -> j.v
         IN  IF f.key \in DOMAIN w.v THEN Set(prev, f.path, Decode)
             ELSE prev

Unmarshal(w, T) ==
    UnmarshalFields(w, WireFields(T), Len(WireFields(T)), Zero(T))

-----------------------------------------------------------------------------
(* The callers of the entities.  The callback answer and the dispatch on  *)
(* an Update live outside types.go; they follow the design of the         *)
(* component that owns them.                                              *)

RespondKeepsGivenID(callback, response) ==
    IF response.CallbackID # <<>> THEN response
    ELSE [response EXCEPT !.CallbackID = callback.ID]

\* The acknowledgement of a callback: the caller's response with its
\* CallbackID taken from the callback.
Respond(callback, response) ==
    [response EXCEPT !.CallbackID = callback.ID]

DispatchPayloadFirst(u) ==
    IF u.Payload # Nil THEN <<"message">>
    ELSE IF u.Query # Nil THEN <<"query">>
    ELSE IF u.Callback # Nil THEN <<"callback">>
    ELSE <<>>

\* The branches a consumer of an Update takes, in the order taken.
Dispatch(u) ==
    IF u.Callback # Nil THEN <<"callback">>
    ELSE IF u.Query # Nil THEN <<"query">>
    ELSE <<"message">>

-----------------------------------------------------------------------------
(* The state machine: an entity is handed to one operation.  recv is the  *)
(* operation's receiver with its Go type, call the operation applied so   *)
(* far, ret its result and wire the encoded form of recv.                 *)

Entity(T, S) == {[type |-> T, val |-> x] : x \in S}

RespondArgs == [callback : Callback, response : CallbackResponse]

WireTypes == {"User", "Chat", "Update", "Callback", "CallbackResponse",
              "Video"}

Inputs ==
    Entity("User", User) \cup Entity("Chat", Chat)
        \cup Entity("Update", Update) \cup Entity("Callback", Callback)
        \cup Entity("CallbackResponse", CallbackResponse)
        \cup Entity("Video", Video) \cup Entity("Respond", RespondArgs)

Init ==
    /\ recv \in Inputs
    /\ call = "none"
    /\ ret = Nil
    /\ wire = JNull

CallUserDestination ==
    /\ call = "none"
    /\ recv.type = "User"
    /\ call' = "User.Destination"
    /\ ret' = UserDestination(recv.val)
    /\ UNCHANGED <<recv, wire>>

CallChatDestination ==
    /\ call = "none"
    /\ recv.type = "Chat"
    /\ call' = "Chat.Destination"
    /\ ret' = ChatDestination(recv.val)
    /\ UNCHANGED <<recv, wire>>

CallIsGroupChat ==
    /\ call = "none"
    /\ recv.type = "Chat"
    /\ call' = "Chat.IsGroupChat"
    /\ ret' = IsGroupChat(recv.val)
    /\ UNCHANGED <<recv, wire>>

CallRespond ==
    /\ call = "none"
    /\ recv.type = "Respond"
    /\ call' = "Respond"
    /\ ret' = Respond(recv.val.callback, recv.val.response)
    /\ UNCHANGED <<recv, wire>>

CallDispatch ==
    /\ call = "none"
    /\ recv.type = "Update"
    /\ call' = "Dispatch"
    /\ ret' = Dispatch(recv.val)
    /\ UNCHANGED <<recv, wire>>

CallMarshal ==
    /\ call = "none"
    /\ recv.type \in WireTypes
    /\ call' = "Marshal"
    /\ wire' = Marshal(recv.val, recv.type)
    /\ UNCHANGED <<recv, ret>>

CallUnmarshal ==
    /\ call = "Marshal"
    /\ call' = "Unmarshal"
    /\ ret' = Unmarshal(wire, recv.type)
    /\ UNCHANGED <<recv, wire>>

Next ==
    \/ CallUserDestination
    \/ CallChatDestination
    \/ CallIsGroupChat
    \/ CallRespond
    \/ CallDispatch
    \/ CallMarshal
    \/ CallUnmarshal

Spec == Init /\ [][Next]_vars

-----------------------------------------------------------------------------
(* Decimal strings, read back independently of strconv.                   *)

IsDigit(ch) == \E d \in DOMAIN DigitChar : DigitChar[d] = ch

DigitValue(ch) == (CHOOSE d \in DOMAIN DigitChar : DigitChar[d] = ch) - 1

RECURSIVE DecimalValue(_)
DecimalValue(s) ==
    IF Len(s) = 0 THEN 0
    ELSE 10 * DecimalValue(SubSeq(s, 1, Len(s) - 1)) + DigitValue(s[Len(s)])

\* One or more digits.
IsDigits(s) == Len(s) >= 1 /\ \A i \in DOMAIN s : IsDigit(s[i])

\* An optional "-" followed only by digits.
IsNumericToken(s) ==
    /\ Len(s) >= 1
    /\ IF s[1] = "-" THEN IsDigits(Tail(s)) ELSE IsDigits(s)

\* s is the decimal string of n: no leading zero, "-" exactly when n < 0.
IsDecimalStringOf(s, n) ==
    LET digits == IF n < 0 THEN Tail(s) ELSE s
    IN  /\ Len(s) >= 1
        /\ (n < 0) <=> (s[1] = "-")
        /\ IsDigits(digits)
        /\ Len(digits) > 1 => digits[1] # "0"
        /\ DecimalValue(digits) = (IF n < 0 THEN -n ELSE n)

IsString(s) == DOMAIN s = 1 .. Len(s) /\ \A i \in DOMAIN s : s[i] \in STRING

NumericKinds == {private, group, supergroup}

-----------------------------------------------------------------------------
(* The claims.                                                            *)

\* C1: Chat.Destination of a chat whose Type is "channel" is "@" followed
\* by its Username, whatever its ID; an empty Username gives the string
\* "@", and the result is a string in every case.
C1_ChannelDestination ==
    (call = "Chat.Destination" /\ recv.val.Type = channel)
        => /\ IsString(ret)
           /\ Len(ret) = 1 + Len(recv.val.Username)
           /\ ret[1] = "@"
           /\ Tail(ret) = recv.val.Username
           /\ recv.val.Username = <<>> => ret = <<"@">>

C1_Witness ==
    /\ call = "Chat.Destination"
    /\ recv.val.Type = channel
    /\ recv.val.ID = 555
    /\ recv.val.Username = <<>>
    /\ ret = <<"@">>

\* C2: Chat.Destination of a private, group or supergroup chat is the
\* decimal string of its ID, and is the same for every Username, Title,
\* FirstName and LastName.
C2_NumericDestination ==
    (call = "Chat.Destination" /\ recv.val.Type \in NumericKinds)
        => /\ IsDecimalStringOf(ret, recv.val.ID)
           /\ \A u \in Usernames, t \in Text("t"), f \in Text("f"),
                 l \in Text("l") :
                 ChatDestination([recv.val EXCEPT !.Username = u,
                                     !.Title = t, !.FirstName = f,
                                     !.LastName = l]) = ret

C2_Witness ==
    /\ call = "Chat.Destination"
    /\ recv.val.Type = supergroup
    /\ recv.val.ID = -1000
    /\ recv.val.Username = <<"n">>
    /\ ret = <<"-", "1", "0", "0", "0">>

\* C3: User.Destination is the decimal string of the user's ID, be it
\* positive, zero or negative, whatever the names of the user, and is
\* defined for every user.
C3_UserDestination ==
    (call = "User.Destination")
        => /\ IsString(ret)
           /\ IsDecimalStringOf(ret, recv.val.ID)
           /\ \A u \in Usernames, f \in Text("f"), l \in Text("l") :
                 UserDestination([recv.val EXCEPT !.Username = u,
                                     !.FirstName = f, !.LastName = l]) = ret

C3_Witness ==
    /\ call = "User.Destination"
    /\ recv.val.ID = -1000
    /\ recv.val.Username = <<"1">>
    /\ ret = <<"-", "1", "0", "0", "0">>

\* C4: Chat.IsGroupChat is false exactly when the chat's Type is
\* "private"; it is true for group, supergroup and channel, whatever the
\* other fields.
C4_IsGroupChat ==
    (call = "Chat.IsGroupChat")
        => /\ ret \in BOOLEAN
           /\ (ret = FALSE) <=> (recv.val.Type = private)
           /\ recv.val.Type \in {group, supergroup, channel} => ret = TRUE

C4_Witness ==
    /\ call = "Chat.IsGroupChat"
    /\ recv.val.Type = private
    /\ recv.val.Title = <<"t">>
    /\ ret = FALSE

\* C5: the response built for a callback carries that callback's ID,
\* whatever the text, alert flag and URL and whatever CallbackID the
\* caller put in; its other fields are the caller's.
C5_ResponseCarriesCallbackID ==
    (call = "Respond")
        => /\ ret.CallbackID = recv.val.callback.ID
           /\ ret.Text = recv.val.response.Text
           /\ ret.ShowAlert = recv.val.response.ShowAlert
           /\ ret.URL = recv.val.response.URL

C5_Witness ==
    /\ call = "Respond"
    /\ recv.val.callback.ID = <<"a">>
    /\ recv.val.response.CallbackID = <<"b">>
    /\ recv.val.response.ShowAlert
    /\ ret.CallbackID = <<"a">>

\* C6: dispatch takes exactly one branch for each of the eight
\* combinations of Payload, Callback and Query: callback when Callback is
\* there, else query when Query is there, else message; no combination is
\* an error.
C6_DispatchPrecedence ==
    (call = "Dispatch")
        => /\ Len(ret) = 1
           /\ ret[1] \in {"callback", "query", "message"}
           /\ recv.val.Callback # Nil => ret[1] = "callback"
           /\ (recv.val.Callback = Nil /\ recv.val.Query # Nil)
                 => ret[1] = "query"
           /\ (recv.val.Callback = Nil /\ recv.val.Query = Nil)
                 => ret[1] = "message"

C6_Witness ==
    /\ call = "Dispatch"
    /\ recv.val.Callback # Nil
    /\ recv.val.Payload # Nil
    /\ recv.val.Query # Nil
    /\ ret = <<"callback">>

\* C7, as stated: an encoded Update with no Callback has no
\* callback_query key, one with no Query has no inline_query key, and an
\* encoded Chat with an empty Title has no title key.
C7_EmptyFieldsOmitted ==
    (call = "Marshal")
        => /\ (recv.type = "Update" /\ recv.val.Callback = Nil)
                 => "callback_query" \notin DOMAIN wire.v
           /\ (recv.type = "Update" /\ recv.val.Query = Nil)
                 => "inline_query" \notin DOMAIN wire.v
           /\ (recv.type = "Chat" /\ recv.val.Title = <<>>)
                 => "title" \notin DOMAIN wire.v

\* C7, amended: an encoded field is left out exactly when its tag carries
\* omitempty and its value is empty; every other encoded field is
\* present, a nil pointer as null and an empty string as "".
C7_OnlyOmitemptyFieldsOmitted ==
    (call = "Marshal")
        => /\ \A i \in DOMAIN WireFields(recv.type) :
                 LET f == WireFields(recv.type)[i]
                     x == Get(recv.val, f.path)
                 IN  (f.key \notin DOMAIN wire.v)
                        <=> (f.omitempty /\ IsEmptyValue(x, f.kind))
           /\ (recv.type = "Update" /\ recv.val.Callback = Nil)
                 => wire.v["callback_query"] = JNull
           /\ (recv.type = "Update" /\ recv.val.Query = Nil)
                 => wire.v["inline_query"] = JNull
           /\ (recv.type = "Chat" /\ recv.val.Title = <<>>)
                 => wire.v["title"] = JString(<<>>)
           /\ (recv.type = "CallbackResponse" /\ recv.val.Text = <<>>)
                 => "text" \notin DOMAIN wire.v

C7_Witness ==
    /\ call = "Marshal"
    /\ recv.type = "Update"
    /\ recv.val.Callback = Nil
    /\ recv.val.Query = Nil
    /\ recv.val.Payload # Nil
    /\ DOMAIN wire.v = {"update_id", "message", "callback_query",
                        "inline_query"}
    /\ wire.v["callback_query"] = JNull

\* C8: decoding the encoded form of an entity gives back the entity:
\* every populated field as it was, every omitted field at its zero
\* value.
C8_RoundTrip ==
    (call = "Unmarshal") => ret = recv.val

\* C9: a channel chat's token begins with "@"; a user's token and a
\* non-channel chat's token are an optional "-" and digits only; so a
\* channel chat, whatever its Username, never has the token of a user or
\* of a non-channel chat.
C9_TokenShapesDisjoint ==
    /\ (call = "Chat.Destination" /\ recv.val.Type = channel)
          => /\ ret[1] = "@"
             /\ ~IsNumericToken(ret)
             /\ \A n \in IDs, u \in Usernames :
                   /\ UserDestination([ID |-> n, FirstName |-> <<>>,
                                       LastName |-> <<>>, Username |-> u])
                         # ret
                   /\ \A k \in ChatType \ {channel} :
                         ChatDestination([recv.val EXCEPT !.ID = n,
                                             !.Type = k, !.Username = u])
                            # ret
    /\ (call = "Chat.Destination" /\ recv.val.Type # channel)
          => IsNumericToken(ret)
    /\ (call = "User.Destination") => IsNumericToken(ret)

C9_Witness ==
    /\ call = "Chat.Destination"
    /\ recv.val.Type = channel
    /\ recv.val.ID = 1
    /\ recv.val.Username = <<"1">>
    /\ ret = <<"@", "1">>

\* C10: a chat whose Type is none of the four kinds, such as "" or
\* "Channel", is told apart by exact comparison: Chat.Destination is the
\* decimal string of its ID and never begins with "@", and
\* Chat.IsGroupChat is true.
C10_UndefinedKind ==
    (recv.type = "Chat" /\ recv.val.Type \notin DefinedKinds)
        => /\ (call = "Chat.Destination")
                 => /\ IsDecimalStringOf(ret, recv.val.ID)
                    /\ ret[1] # "@"
           /\ (call = "Chat.IsGroupChat") => ret = TRUE

C10_Witness ==
    /\ call = "Chat.Destination"
    /\ recv.val.Type = Channel
    /\ recv.val.ID = 555
    /\ recv.val.Username = <<"n">>
    /\ ret = <<"5", "5", "5">>

=============================================================================
